---- MODULE Spec2Model ----
(***************************************************************************)
(* Result cache (CacheManager over localStorage) and request fingerprint   *)
(* (generateRequestHash) of the SoniqueDNA client.                         *)
(*                                                                         *)
(* Time is counted in milliseconds from an instant that is a multiple of   *)
(* the 5-minute fingerprint window, so that Date.now() fits the model's    *)
(* integers while buckets and durations keep their real sizes.             *)
(***************************************************************************)
EXTENDS Integers, Sequences, FiniteSets, TLC

VARIABLES
  now,      \* Date.now()
  store,    \* localStorage: key -> stored string (or absent)
  last,     \* the most recent CacheManager call: its arguments and its outcome
  userContext,        \* props of the CrossDomainRecommendations component:
  musicArtists,       \*   the caller's arrays, in the order they are held
  topScoredArtists,
  userTags,
  hashLog,  \* the fingerprints the component computed so far, oldest first
  managerHash,  \* the last result of CacheManager.generateRequestHash
  calls,    \* CrossDomainRecommendations: the calls of fetchCrossDomainRecommendations
  timers,   \*   the live setInterval handles (a handle is its call's number)
  progressInterval,   \*   the progressInterval state (0 is null)
  view,     \*   recommendations, cacheStatus, loading and error state
  requests, \*   how many requests each endpoint has been sent, and how the
            \*   latest aggregation request ended
  session,  \* MusicDashboard: the poll session (timers, counters, requests)
  dash,     \*   the component's state
  toast,    \*   the title of the latest notification
  intervalRefs,   \*   whether intervalRefs.current holds the session's handles
  mounted,
  fetchRef,
  refreshes \*   the invocations of refreshCrossDomainRecs when they overlap

hashVars == <<userContext, musicArtists, topScoredArtists, userTags, hashLog, managerHash>>
fetchVars == <<calls, timers, progressInterval, view, requests>>
dashVars == <<session, dash, toast, intervalRefs, mounted, fetchRef, refreshes>>
uiVars == <<fetchVars, dashVars>>
vars == <<now, store, last, userContext, musicArtists, topScoredArtists, userTags,
          hashLog, managerHash, calls, timers, progressInterval, view, requests,
          session, dash, toast, intervalRefs, mounted, fetchRef, refreshes>>

----------------------------------------------------------------------------
(* Bounds *)

NumExtra == 5        \* storage keys that share the cross-domain key as a prefix
MaxSkew == 1         \* last clock reading (ms) of the shared-storage runs
MaxName == 2         \* artist and tag names are 1..MaxName, in code-unit order
MaxItems == 2        \* list items of a request, over its three lists
MaxLog == 2          \* fingerprints computed in one run
MaxCalls == 3        \* calls of fetchCrossDomainRecommendations in one run
EarlyPolls == 2      \* polls of a session during which anything but its timers acts
MaxRefresh == 2      \* invocations of refreshCrossDomainRecs that can overlap

----------------------------------------------------------------------------
(* Configuration *)

CrossDuration == 30 * 60 * 1000
MusicDuration == 15 * 60 * 1000
CrossMaxSize == 5
MusicMaxSize == 10

\* A storage key is a base string followed by a (possibly empty) suffix;
\* suffix 0 is the empty suffix.
CrossKey == [base |-> "crossdomain_recommendations_cache", suffix |-> 0]
MusicKey == [base |-> "music_recommendations_cache", suffix |-> 0]
UnregisteredKey == [base |-> "my_api_cache", suffix |-> 0]
ExtraKeys == {[base |-> "crossdomain_recommendations_cache", suffix |-> i] : i \in 1..NumExtra}

RegisteredKeys == {CrossKey, MusicKey}
Keys == RegisteredKeys \cup {UnregisteredKey} \cup ExtraKeys

\* Both namespaces registered with the cross-domain duration
cacheConfigsSameDuration ==
  [k \in RegisteredKeys |->
     [duration |-> 30 * 60 * 1000, maxSize |-> IF k = CrossKey THEN 5 ELSE 10]]

cacheConfigs ==
  [k \in RegisteredKeys |->
     IF k = CrossKey THEN [duration |-> CrossDuration, maxSize |-> CrossMaxSize]
                     ELSE [duration |-> MusicDuration, maxSize |-> MusicMaxSize]]

\* key.startsWith(cacheKey)
StartsWith(key, cacheKey) ==
  key.base = cacheKey.base /\ (cacheKey.suffix = 0 \/ cacheKey.suffix = key.suffix)

----------------------------------------------------------------------------
(* Values *)

Null == "null"
Data == {"d1", "d2"}            \* response objects handed to setCachedData
HashIds == {"h1", "h2"}         \* request hashes handed to the CacheManager

\* Stored strings.  What JSON.parse makes of each kind:
\*   absent   getItem returns null
\*   empty    ""          (falsy: never parsed)
\*   garbage  not JSON    (JSON.parse throws)
\*   jsonnull "null"      (parses to null: reading a property throws)
\*   jsonobj  "{}"        (parses; expiresAt and requestHash are undefined)
\*   entry    JSON.stringify of a CacheEntry
Absent == [kind |-> "absent"]
EmptyString == [kind |-> "empty"]
Garbage == [kind |-> "garbage"]
JsonNull == [kind |-> "jsonnull"]
JsonObj == [kind |-> "jsonobj"]

CacheEntry(data, timestamp, requestHash, expiresAt) ==
  [kind |-> "entry", data |-> data, timestamp |-> timestamp,
   requestHash |-> requestHash, expiresAt |-> expiresAt]

IsEntry(v) == v.kind = "entry"
Present(v) == v.kind # "absent"

\* Storage faults: "none"; "quota" (setItem throws); "disabled" (every access throws)
Faults == {"none", "quota", "disabled"}
ReadThrows(fault) == fault = "disabled"
WriteThrows(fault) == fault \in {"quota", "disabled"}

----------------------------------------------------------------------------
(* CacheManager *)

\* getCacheInfo(key).age as cleanupCache uses it: `getCacheInfo(key)?.age || 0`
CacheInfoAge(s, key, t) ==
  LET v == s[key] IN
    IF IsEntry(v) THEN t - v.timestamp   \* now - cacheEntry.timestamp
    ELSE 0                               \* exists:false, parse error (null) or NaN age

\* cleanupCache: the stores it can leave.  Entries are sorted by age,
\* largest first, and everything after the first maxSize is removed; among
\* equal ages the order is that of Object.keys(localStorage).
cleanupCache(s, cacheKey, config, t) ==
  LET cacheKeys == {k \in Keys : Present(s[k]) /\ StartsWith(k, cacheKey)}
      excess == Cardinality(cacheKeys) - config.maxSize
  IN IF excess <= 0 THEN {s}
     ELSE {[k \in Keys |-> IF k \in R THEN Absent ELSE s[k]] :
             R \in {Q \in SUBSET cacheKeys :
                      /\ Cardinality(Q) = excess
                      /\ \A r \in Q : \A q \in cacheKeys \ Q :
                           CacheInfoAge(s, r, t) <= CacheInfoAge(s, q, t)}}

\* An expiry test against the time of writing instead of expiresAt
GetOutcomeExpiresAtOnce(v, requestHash, t) ==
  CASE v.kind \in {"absent", "empty"} -> "miss"
    [] v.kind \in {"garbage", "jsonnull"} -> "throw"
    [] v.kind = "jsonobj" -> "miss"
    [] OTHER -> IF t > v.timestamp THEN "expired"
                ELSE IF v.requestHash # requestHash THEN "miss"
                ELSE "hit"

\* A mismatched request hash handled like an expired entry
GetOutcomeEvictsMismatch(v, requestHash, t) ==
  CASE v.kind \in {"absent", "empty"} -> "miss"
    [] v.kind \in {"garbage", "jsonnull"} -> "throw"
    [] v.kind = "jsonobj" -> "miss"
    [] OTHER -> IF t > v.expiresAt \/ v.requestHash # requestHash THEN "expired"
                ELSE "hit"

\* What the try block of getCachedData does with the stored string:
\* "miss" (return null), "expired" (remove, return null), "throw", or "hit".
GetOutcome(v, requestHash, t) ==
  CASE v.kind \in {"absent", "empty"} -> "miss"
    [] v.kind \in {"garbage", "jsonnull"} -> "throw"
    [] v.kind = "jsonobj" -> "miss"
    [] OTHER -> IF t > v.expiresAt THEN "expired"
                ELSE IF v.requestHash # requestHash THEN "miss"
                ELSE "hit"

\* The record of a call; n alternates so that every call is a step.
Call(op, key, hash, data, fault, ret, raised) ==
  [n |-> 1 - last.n, op |-> op, key |-> key, hash |-> hash, data |-> data,
   fault |-> fault, ret |-> ret, raised |-> raised]

NoCall ==
  [n |-> 0, op |-> "none", key |-> UnregisteredKey, hash |-> Null, data |-> Null,
   fault |-> "none", ret |-> Null, raised |-> FALSE]

getCachedData(cacheKey, requestHash, fault) ==
  LET v == store[cacheKey] IN
  /\ now' = now
  /\ UNCHANGED hashVars
  /\ UNCHANGED uiVars
  /\ IF cacheKey \notin RegisteredKeys
       THEN /\ store' = store
            /\ last' = Call("get", cacheKey, requestHash, Null, fault, Null, FALSE)
     ELSE IF ReadThrows(fault)
       \* getItem throws; the catch block's removeItem throws in turn
       THEN /\ store' = store
            /\ last' = Call("get", cacheKey, requestHash, Null, fault, Null, TRUE)
     ELSE LET o == GetOutcome(v, requestHash, now) IN
            /\ store' = IF o \in {"expired", "throw"}
                          THEN [store EXCEPT ![cacheKey] = Absent] ELSE store
            /\ last' = Call("get", cacheKey, requestHash, Null, fault,
                            IF o = "hit" THEN v.data ELSE Null, FALSE)

setCachedData(cacheKey, requestHash, data, fault) ==
  /\ now' = now
  /\ UNCHANGED hashVars
  /\ UNCHANGED uiVars
  /\ last' = Call("set", cacheKey, requestHash, data, fault, Null, FALSE)
  /\ IF cacheKey \notin RegisteredKeys \/ WriteThrows(fault)
       THEN store' = store
       ELSE LET config == cacheConfigs[cacheKey]
                cacheEntry == CacheEntry(data, now, requestHash, now + config.duration)
                written == [store EXCEPT ![cacheKey] = cacheEntry]
            IN store' \in cleanupCache(written, cacheKey, config, now)

clearCache(cacheKey, fault) ==
  /\ now' = now
  /\ UNCHANGED hashVars
  /\ UNCHANGED uiVars
  /\ last' = Call("clear", cacheKey, Null, Null, fault, Null, FALSE)
  /\ store' = IF ReadThrows(fault) THEN store ELSE [store EXCEPT ![cacheKey] = Absent]

\* getCacheInfo: { exists: false } for a missing or empty string, null when
\* parsing or reading a property throws, and otherwise the fields read from
\* whatever was parsed (undefined where the parsed object has none).
getCacheInfo(s, cacheKey, fault, t) ==
  LET v == s[cacheKey] IN
    IF ReadThrows(fault) THEN [caught |-> TRUE]
    ELSE CASE v.kind \in {"absent", "empty"} -> [exists |-> FALSE]
           [] v.kind \in {"garbage", "jsonnull"} -> [caught |-> TRUE]
           [] v.kind = "jsonobj" -> [exists |-> TRUE, expiresAt |-> Null, age |-> Null]
           [] OTHER -> [exists |-> TRUE, expiresAt |-> v.expiresAt, age |-> t - v.timestamp]

\* `!info?.exists`
InfoExists(info) == "exists" \in DOMAIN info /\ info.exists

\* isCacheValid: getCachedData(cacheKey, requestHash) !== null, with what
\* getCachedData leaves in storage and whether it raised
isCacheValid(s, cacheKey, requestHash, fault, t) ==
  LET v == s[cacheKey]
      o == GetOutcome(v, requestHash, t)
  IN IF cacheKey \notin RegisteredKeys
       THEN [valid |-> FALSE, raised |-> FALSE, store |-> s]
     ELSE IF ReadThrows(fault)
       THEN [valid |-> FALSE, raised |-> TRUE, store |-> s]
     ELSE [valid |-> o = "hit" /\ v.data # Null, raised |-> FALSE,
           store |-> IF o \in {"expired", "throw"}
                       THEN [s EXCEPT ![cacheKey] = Absent] ELSE s]

\* The value getCacheStatus returns once isCacheValid has returned
StatusOf(valid, info) ==
  IF valid THEN "valid"
  ELSE IF ~InfoExists(info) THEN "missing"
  ELSE "expired"

\* cacheUtils.getCacheStatus
getCacheStatus(cacheKey, requestHash, fault) ==
  LET checked == isCacheValid(store, cacheKey, requestHash, fault, now)
      info == getCacheInfo(checked.store, cacheKey, fault, now)
      status == IF checked.raised THEN "error" ELSE StatusOf(checked.valid, info)
  IN /\ now' = now
     /\ UNCHANGED hashVars
     /\ UNCHANGED uiVars
     /\ store' = checked.store
     /\ last' = Call("status", cacheKey, requestHash, Null, fault, status, FALSE)

----------------------------------------------------------------------------
(* Request fingerprint *)

TimeWindow == 300000
Location == "Mumbai, India"
LocationRadius == 50000

Names == 1..MaxName
Lists == UNION {[1..n -> Names] : n \in 0..MaxItems}
\* "wide" stands for a free text with a character above U+00FF
Contexts == {"plain", "wide"}

\* A sort that leaves the list in the order it was given
InsertUnsorted(x, s) == <<x>> \o s

\* Array.prototype.sort() on strings: ascending code-unit order
InsertSorted(x, s) ==
  LET k == Cardinality({i \in 1..Len(s) : s[i] < x})
  IN SubSeq(s, 1, k) \o <<x>> \o SubSeq(s, k + 1, Len(s))

RECURSIVE SortList(_)
SortList(s) == IF s = <<>> THEN <<>> ELSE InsertSorted(Head(s), SortList(Tail(s)))

\* btoa: base64 of a Latin-1 string; InvalidCharacterError on anything else
InvalidCharacterError == [threw |-> "InvalidCharacterError"]
btoa(json, wide) == IF wide THEN InvalidCharacterError ELSE [base64 |-> json]

\* A fingerprint stamped with the clock reading whether forced or not
TimestampAlwaysNow(forceRefresh, t) == t

\* A fingerprint stamped with the window start whether forced or not
TimestampAlwaysWindow(forceRefresh, t) == (t \div 300000) * 300000

\* The timestamp field of the fingerprint
RequestTimestamp(forceRefresh, t) ==
  IF forceRefresh THEN t ELSE (t \div TimeWindow) * TimeWindow

\* generateRequestHash of the component: btoa(JSON.stringify(data)), the keys
\* of data in the order they are written
RequestHash(ctx, artists, top, tags, forceRefresh, location, locationRadius, t) ==
  btoa(<<"userContext", ctx,
         "musicArtists", SortList(artists),
         "topScoredArtists", SortList(top),
         "userTags", SortList(tags),
         "location", location,
         "locationRadius", locationRadius,
         "timestamp", RequestTimestamp(forceRefresh, t)>>,
       ctx = "wide")

\* CacheManager.generateRequestHash on the same parameters: keys sorted,
\* arrays sorted
ManagerRequestHash(ctx, artists, top, tags, location, locationRadius) ==
  btoa(<<"location", location,
         "locationRadius", locationRadius,
         "musicArtists", SortList(artists),
         "topScoredArtists", SortList(top),
         "userContext", ctx,
         "userTags", SortList(tags)>>,
       ctx = "wide")

NoHash == [base64 |-> <<>>]

\* The orderings of a list
Orderings(s) == {[i \in 1..Len(s) |-> s[p[i]]] : p \in Permutations(1..Len(s))}

\* The arrays the parent hands over at a call: the request's lists, in any order
PassedArrays ==
  Orderings(musicArtists) \X Orderings(topScoredArtists) \X Orderings(userTags)

Computed(forceRefresh, fp, passed) ==
  [force |-> forceRefresh, at |-> now, fp |-> fp,
   inOrder |-> \A i \in 1..3 : passed[i] = SortList(passed[i])]

\* Both functions sort the caller's arrays in place
SortedInPlace(passed) ==
  /\ musicArtists' = SortList(passed[1])
  /\ topScoredArtists' = SortList(passed[2])
  /\ userTags' = SortList(passed[3])
  /\ userContext' = userContext

generateRequestHash(forceRefresh, passed) ==
  /\ Len(hashLog) < MaxLog
  /\ hashLog' = Append(hashLog,
       Computed(forceRefresh,
                RequestHash(userContext, passed[1], passed[2], passed[3],
                            forceRefresh, Location, LocationRadius, now),
                passed))
  /\ SortedInPlace(passed)
  /\ UNCHANGED <<now, store, last, managerHash>>
  /\ UNCHANGED uiVars

managerGenerateRequestHash(passed) ==
  /\ managerHash' = ManagerRequestHash(userContext, passed[1], passed[2], passed[3],
                                       Location, LocationRadius)
  /\ SortedInPlace(passed)
  /\ UNCHANGED <<now, store, last, hashLog>>
  /\ UNCHANGED uiVars

----------------------------------------------------------------------------
(* Environment *)

\* The clock readings of the time-to-live runs: the start and both
\* durations, each with the millisecond before and the millisecond after
Landmarks == {0, MusicDuration, CrossDuration}
CacheInstants == {b + o : b \in Landmarks, o \in {-1, 0, 1}} \cap Nat
\* The clock readings of the shared-storage runs
EnvInstants == 0..MaxSkew

\* The clock moves on to a later instant of S; `last` keeps only calls made
\* at the current clock reading.
Advance(S) ==
  /\ \E t \in S : t > now /\ now' = t
  /\ last' = [NoCall EXCEPT !.n = last.n]
  /\ store' = store
  /\ UNCHANGED hashVars
  /\ UNCHANGED uiVars

\* Another writer of the same localStorage (another tab, an older build, the
\* developer console) leaves a value under a key.
ExternalWrite(key, v) ==
  /\ store' = [store EXCEPT ![key] = v]
  /\ last' = Call("external", key, Null, Null, "none", Null, FALSE)
  /\ now' = now
  /\ UNCHANGED hashVars
  /\ UNCHANGED uiVars

CorruptValues == {EmptyString, Garbage, JsonNull, JsonObj}

----------------------------------------------------------------------------
(* CrossDomainRecommendations: fetchCrossDomainRecommendations *)

CACHE_KEY == CrossKey

\* What a response body (and so a cached `data`) can be once parsed:
\*   result     an object with recommendations_by_domain
\*   object     another object or array, such as {} or {"error": ...}
\*   primitive  a truthy primitive, such as 5 or "ok"
\*   falsy      null, 0, false or ""
Bodies == {"result", "object", "primitive", "falsy"}
Truthy(d) == d \in {"result", "object", "primitive"}
IsObject(d) == d \in {"result", "object"}
\* data.recommendations_by_domain[domain] can be read
Usable(d) == d = "result"

\* How the aggregation request can end: fetch rejects, a status outside
\* 2xx, a body that response.json() rejects, or a parsed body
Responses == {"networkError", "non2xx", "invalidJSON"} \cup Bodies

CallIds == 1..MaxCalls

\* pc: idle, awaitClear (in clearServerCache), awaitResponse (in fetch),
\* resolved, rejected.  seen is the progressInterval of the render whose
\* closure makes the call.
NoFetch == [pc |-> "idle", force |-> FALSE, hash |-> NoHash, seen |-> 0]

Settled(c) == c.pc \in {"resolved", "rejected"}

InitialView ==
  [recommendations |-> Null, from_cache |-> FALSE, cacheStatus |-> "loading",
   loading |-> FALSE, error |-> FALSE]

\* setLoading(true); setError(null); setCacheStatus('loading')
Started(w) == [w EXCEPT !.loading = TRUE, !.error = FALSE, !.cacheStatus = "loading"]

\* The cleanup of the [progressInterval] effect: when the state changes, the
\* handle it held is cleared.
EffectCleanup(live, next) ==
  IF progressInterval # 0 /\ progressInterval # next
    THEN live \ {progressInterval} ELSE live

\* setInterval(...); setProgressInterval(interval); fetch(...)
StartProgress(id) ==
  /\ timers' = EffectCleanup(timers, id) \cup {id}
  /\ progressInterval' = id
  /\ requests' = [requests EXCEPT !.aggregation = @ + 1]

\* The call up to its first await, or to its return on a cache hit
fetchCrossDomainRecommendations(id, forceRefresh) ==
  LET requestHash == RequestHash(userContext, musicArtists, topScoredArtists,
                                 userTags, forceRefresh, Location, LocationRadius, now)
      v == store[CACHE_KEY]
      o == IF forceRefresh THEN "skipped" ELSE GetOutcome(v, requestHash, now)
      cachedData == IF o = "hit" THEN v.data ELSE Null
      afterGet == IF o \in {"expired", "throw"}
                    THEN [store EXCEPT ![CACHE_KEY] = Absent] ELSE store
      call == [pc |-> "idle", force |-> forceRefresh, hash |-> requestHash,
               seen |-> progressInterval]
  IN
  /\ calls[id].pc = "idle"
  /\ \A j \in CallIds : j < id => calls[j].pc # "idle"
  /\ id = 1 => ~forceRefresh        \* the call of the mount effect
  /\ SortedInPlace(<<musicArtists, topScoredArtists, userTags>>)
  /\ UNCHANGED <<now, last, hashLog, managerHash>>
  /\ UNCHANGED dashVars
  /\ IF requestHash = InvalidCharacterError
       \* btoa throws before the cache is looked at
       THEN /\ calls' = [calls EXCEPT ![id] = [call EXCEPT !.pc = "rejected"]]
            /\ view' = Started(view)
            /\ UNCHANGED <<store, timers, progressInterval, requests>>
     ELSE IF o = "hit" /\ Truthy(cachedData)
       THEN /\ store' = store
            /\ UNCHANGED <<timers, progressInterval, requests>>
            /\ IF IsObject(cachedData)
                 THEN /\ view' = [Started(view) EXCEPT
                                    !.recommendations = cachedData,
                                    !.from_cache = TRUE,
                                    !.cacheStatus = "cached",
                                    !.loading = FALSE]
                      \* reading recommendations_by_domain[domain] throws
                      \* when the cached object has no such field
                      /\ calls' = [calls EXCEPT ![id] =
                           [call EXCEPT !.pc = IF Usable(cachedData)
                                                 THEN "resolved" ELSE "rejected"]]
                 \* cachedData.from_cache = true throws on a primitive
                 ELSE /\ view' = Started(view)
                      /\ calls' = [calls EXCEPT ![id] = [call EXCEPT !.pc = "rejected"]]
     ELSE IF forceRefresh
       THEN /\ store' = [store EXCEPT ![CACHE_KEY] = Absent]
            /\ requests' = [requests EXCEPT !.clearCache = @ + 1]
            /\ view' = Started(view)
            /\ calls' = [calls EXCEPT ![id] = [call EXCEPT !.pc = "awaitClear"]]
            /\ UNCHANGED <<timers, progressInterval>>
     ELSE /\ store' = afterGet
          /\ StartProgress(id)
          /\ view' = Started(view)
          /\ calls' = [calls EXCEPT ![id] = [call EXCEPT !.pc = "awaitResponse"]]

\* clearServerCache has settled (its errors are swallowed): the call goes on
clearServerCache(id) ==
  /\ calls[id].pc = "awaitClear"
  /\ StartProgress(id)
  /\ calls' = [calls EXCEPT ![id].pc = "awaitResponse"]
  /\ UNCHANGED <<now, store, last, view>>
  /\ UNCHANGED hashVars
  /\ UNCHANGED dashVars

\* The finally block: the handle cleared is the one of the call's closure
Finally(id) ==
  LET seen == calls[id].seen IN
  IF seen # 0
    THEN /\ timers' = EffectCleanup(timers, 0) \ {seen}
         /\ progressInterval' = 0
    ELSE UNCHANGED <<timers, progressInterval>>

\* The aggregation request has ended: the rest of the call
response(id, r) ==
  LET c == calls[id]
      config == cacheConfigs[CACHE_KEY]
      cacheEntry == CacheEntry(r, now, c.hash, now + config.duration)
      written == [store EXCEPT ![CACHE_KEY] = cacheEntry]
      failed == [view EXCEPT !.error = TRUE, !.cacheStatus = "error", !.loading = FALSE]
  IN
  /\ c.pc = "awaitResponse"
  /\ IF r \in Bodies
       \* setCachedData, setRecommendations, setCacheStatus('fresh'), and
       \* then the read of data.recommendations_by_domain[domain]
       THEN /\ store' \in cleanupCache(written, CACHE_KEY, config, now)
            /\ view' = IF Usable(r)
                         THEN [view EXCEPT !.recommendations = r, !.from_cache = FALSE,
                                           !.cacheStatus = "fresh", !.loading = FALSE]
                         ELSE [failed EXCEPT !.recommendations = r, !.from_cache = FALSE]
       ELSE /\ store' = store
            /\ view' = failed
  /\ Finally(id)
  /\ calls' = [calls EXCEPT ![id].pc = "resolved"]
  /\ requests' = [requests EXCEPT !.answer = r]
  /\ UNCHANGED <<now, last>>
  /\ UNCHANGED hashVars
  /\ UNCHANGED dashVars

----------------------------------------------------------------------------
(* MusicDashboard: the poll session of refreshCrossDomainRecs and of the
   initial-load effect.  Both timers have a period of 1000 ms and the
   fallback timer is created first, so while both are live they fire in
   turn, the fallback timer first.  The progress endpoint answers a poll
   before the progress timer fires again.  The endpoint has data, the
   requests of the session end and the component is torn down during the
   first EarlyPolls polls of the session or once its polling has stopped;
   in between only the timers act. *)

maxPolls == 300
FallbackCap == 85
ImmediateStep == 1
FallbackStep == 2

\* What the progress endpoint can report
ProgressData ==
  {[percentage |-> 40, status |-> "processing", current_artist |-> "a1", current_domain |-> "movie"],
   [percentage |-> 70, status |-> "processing", current_artist |-> "a2", current_domain |-> "book"],
   [percentage |-> 100, status |-> "completed", current_artist |-> "a2", current_domain |-> "book"],
   [percentage |-> 40, status |-> "error", current_artist |-> "a1", current_domain |-> "movie"]}

\* How a poll can end: fetch rejects, a status outside 2xx, or data
PollFailures == {[failure |-> "networkError"], [failure |-> "notOk"]}
NoPoll == [failure |-> "none"]
NoUserId == [failure |-> "noUserId"]

\* How the aggregation request can end: fetch or res.json() rejects, a body
\* with an error field, or recommendations
Aggregations == {"networkError", "errorBody", "recs"}

\* kind: none, initial, refresh.  pc: idle, checking (token check pending),
\* clearing (clear-cache pending), fetching (aggregation pending), delay
\* (setTimeout pending), done, skipped.
NoSession ==
  [kind |-> "none", pc |-> "idle",
   spotifyUserId |-> Null,          \* as captured by the closure of the timers
   progressInterval |-> FALSE,      \* the real-poll timer is live
   fallbackInterval |-> FALSE,      \* the fallback timer is live
   due |-> "fallback",              \* the timer that fires next
   pollCount |-> 0, fallbackProgress |-> 0, immediateFallbackProgress |-> 0,
   polling |-> FALSE,               \* a poll request is in flight
   answered |-> FALSE,              \* a poll of the session has returned data
   lastPoll |-> NoPoll,             \* how the latest poll ended, or its data
   ceiling |-> FALSE,               \* the ceiling branch has run
   late |-> FALSE,                  \* the aggregation ended after the ceiling
   got |-> Null,                    \* how the aggregation request ended
   ev |-> "none"]                   \* the latest callback of the session

InitialDash ==
  [spotifyToken |-> TRUE, crossDomainRecs |-> Null, crossDomainLoading |-> FALSE,
   crossDomainProgress |-> 0, crossDomainStatus |-> "",
   crossDomainCurrentArtist |-> "", crossDomainCurrentDomain |-> ""]

NoRefs == [progress |-> FALSE, fallback |-> FALSE]

\* React drops the state updates of an unmounted component
Show(d) == IF mounted THEN d ELSE dash

\* setCrossDomainLoading(true) ... setCrossDomainCurrentDomain('')
Starting ==
  [dash EXCEPT !.crossDomainLoading = TRUE, !.crossDomainProgress = 0,
               !.crossDomainStatus = "starting",
               !.crossDomainCurrentArtist = "", !.crossDomainCurrentDomain = ""]

\* The status values on which a poll stops the session, one of them left out
TerminalOnlyCompleted(status) == status = "completed"

\* progressData.status === 'completed' || progressData.status === 'error'
Terminal(status) == status \in {"completed", "error"}

\* The timer that fires next once timer t has fired
NextDue(t, s) ==
  IF t = "fallback" THEN (IF s.progressInterval THEN "progress" ELSE "fallback")
                    ELSE (IF s.fallbackInterval THEN "fallback" ELSE "progress")

\* clearInterval(progressInterval); clearInterval(fallbackInterval)
StopBoth(s) == [s EXCEPT !.progressInterval = FALSE, !.fallbackInterval = FALSE]

\* The session is in its first polls, or its polling has stopped
Early == session.pollCount <= EarlyPolls \/ ~session.progressInterval

\* An invocation of refreshCrossDomainRecs: where it stands, the
\* crossDomainLoading its closure captured, its two timers
RefreshIds == 1..MaxRefresh
NoRefresh ==
  [pc |-> "idle", crossDomainLoading |-> FALSE,
   progressInterval |-> FALSE, fallbackInterval |-> FALSE]

DashFrame ==
  /\ UNCHANGED <<now, store, last, refreshes>>
  /\ UNCHANGED hashVars
  /\ UNCHANGED fetchVars

\* The [spotifyToken] effect: the token check of the initial load is started
initialLoad ==
  /\ mounted /\ session.pc = "idle"
  /\ dash.spotifyToken /\ ~fetchRef /\ ~dash.crossDomainLoading
  /\ session' = [session EXCEPT !.kind = "initial", !.pc = "checking", !.ev = "effect"]
  /\ UNCHANGED <<dash, toast, intervalRefs, mounted, fetchRef>>
  /\ DashFrame

\* refreshCrossDomainRecs up to its first await
refreshCrossDomainRecs(userId) ==
  /\ mounted /\ session.pc = "idle" /\ fetchRef
  /\ IF ~dash.spotifyToken
       THEN /\ toast' = "No Spotify Token"
            /\ session' = [session EXCEPT !.kind = "refresh", !.pc = "skipped",
                                          !.ev = "refresh"]
       ELSE /\ toast' = toast
            /\ session' = [session EXCEPT !.kind = "refresh", !.pc = "checking",
                                          !.spotifyUserId = userId, !.ev = "refresh"]
  /\ UNCHANGED <<dash, intervalRefs, mounted, fetchRef>>
  /\ DashFrame

\* checkSpotifyTokenValidity has resolved: the timers are started and the
\* first request is sent
tokenChecked(isValid) ==
  LET started == [session EXCEPT !.progressInterval = TRUE, !.fallbackInterval = TRUE,
                                 !.due = "fallback", !.ev = "checked"]
  IN
  /\ session.pc = "checking"
  /\ mounted' = mounted
  /\ IF session.kind = "initial"
       THEN IF ~isValid
              THEN /\ session' = [session EXCEPT !.pc = "skipped", !.ev = "checked"]
                   /\ UNCHANGED <<dash, toast, intervalRefs, fetchRef>>
              ELSE /\ fetchRef' = TRUE
                   /\ dash' = Show(Starting)
                   \* intervalRefs.current.fallback = fallbackInterval
                   /\ intervalRefs' = [intervalRefs EXCEPT !.fallback = TRUE]
                   /\ session' = [started EXCEPT !.pc = "fetching"]
                   /\ toast' = toast
       ELSE IF ~isValid
              THEN /\ toast' = "Invalid Spotify Token"
                   /\ session' = [session EXCEPT !.pc = "skipped", !.ev = "checked"]
                   /\ UNCHANGED <<dash, intervalRefs, fetchRef>>
            ELSE IF dash.crossDomainLoading
              THEN /\ session' = [session EXCEPT !.pc = "skipped", !.ev = "checked"]
                   /\ UNCHANGED <<dash, toast, intervalRefs, fetchRef>>
            ELSE /\ dash' = Show(Starting)
                 /\ session' = [started EXCEPT !.pc = "clearing"]
                 /\ UNCHANGED <<toast, intervalRefs, fetchRef>>
  /\ DashFrame

\* The callback of the fallback timer
fallbackTick ==
  LET p == IF session.immediateFallbackProgress + ImmediateStep < FallbackCap
             THEN session.immediateFallbackProgress + ImmediateStep ELSE FallbackCap
  IN
  /\ session.fallbackInterval
  /\ session.due = "fallback" \/ ~session.progressInterval
  /\ session' = [session EXCEPT !.immediateFallbackProgress = p,
                                !.due = NextDue("fallback", session),
                                !.ev = "fallbackTick"]
  /\ dash' = Show([dash EXCEPT !.crossDomainProgress = p])
  /\ UNCHANGED <<toast, intervalRefs, mounted, fetchRef>>
  /\ DashFrame

\* The callback of the real-poll timer, up to its await
progressTick ==
  LET n == session.pollCount + 1
      refs == IF session.kind = "initial"
                THEN [intervalRefs EXCEPT !.progress = TRUE] ELSE intervalRefs
      ticked == [session EXCEPT !.pollCount = n, !.due = NextDue("progress", session),
                                !.ev = "progressTick"]
  IN
  /\ session.progressInterval
  /\ session.due = "progress" \/ ~session.fallbackInterval
  /\ ~session.polling
  /\ IF n > maxPolls
       THEN /\ session' = [StopBoth(ticked) EXCEPT !.ceiling = TRUE]
            /\ intervalRefs' = NoRefs
            /\ dash' = Show([dash EXCEPT !.crossDomainLoading = FALSE,
                                         !.crossDomainProgress = 0,
                                         !.crossDomainStatus = ""])
     ELSE IF session.spotifyUserId # Null
       THEN /\ session' = [ticked EXCEPT !.polling = TRUE]
            /\ intervalRefs' = refs
            /\ dash' = dash
     \* No spotifyUserId available: the tick does nothing
     ELSE /\ session' = [ticked EXCEPT !.lastPoll = NoUserId]
          /\ intervalRefs' = refs
          /\ dash' = dash
  /\ UNCHANGED <<toast, mounted, fetchRef>>
  /\ DashFrame

\* The progress endpoint has answered the poll (or the request has failed)
pollAnswered(r) ==
  /\ session.polling
  /\ r \in ProgressData => session.pollCount <= EarlyPolls
  /\ IF r \in ProgressData
       THEN /\ dash' = Show([dash EXCEPT !.crossDomainProgress = r.percentage,
                                         !.crossDomainStatus = r.status,
                                         !.crossDomainCurrentArtist = r.current_artist,
                                         !.crossDomainCurrentDomain = r.current_domain])
            /\ LET s == [session EXCEPT !.polling = FALSE, !.lastPoll = r,
                                        !.answered = TRUE, !.ev = "poll"]
               IN IF Terminal(r.status)
                    THEN session' = StopBoth(s) /\ intervalRefs' = NoRefs
                    ELSE session' = s /\ intervalRefs' = intervalRefs
       ELSE LET f == IF session.fallbackProgress + FallbackStep < FallbackCap
                       THEN session.fallbackProgress + FallbackStep ELSE FallbackCap
            IN /\ dash' = Show([dash EXCEPT !.crossDomainProgress = f,
                                            !.crossDomainStatus = "processing"])
               /\ session' = [session EXCEPT !.polling = FALSE, !.lastPoll = r,
                                             !.fallbackProgress = f, !.ev = "poll"]
               /\ intervalRefs' = intervalRefs
  /\ UNCHANGED <<toast, mounted, fetchRef>>
  /\ DashFrame

\* The catch block of refreshCrossDomainRecs
RefreshFailed ==
  /\ toast' = "Refresh Failed"
  /\ intervalRefs' = NoRefs
  /\ dash' = Show([dash EXCEPT !.crossDomainLoading = FALSE, !.crossDomainProgress = 0,
                               !.crossDomainStatus = "",
                               !.crossDomainCurrentArtist = "",
                               !.crossDomainCurrentDomain = ""])

\* The clear-cache request of a refresh has ended
cacheCleared(ok) ==
  /\ session.pc = "clearing"
  /\ Early
  /\ IF ok
       THEN /\ session' = [session EXCEPT !.pc = "fetching", !.ev = "cleared"]
            /\ UNCHANGED <<dash, toast, intervalRefs>>
       ELSE /\ session' = [StopBoth(session) EXCEPT !.pc = "done", !.got = "networkError",
                                                    !.late = session.ceiling,
                                                    !.ev = "cleared"]
            /\ RefreshFailed
  /\ UNCHANGED <<mounted, fetchRef>>
  /\ DashFrame

\* The aggregation request has ended
aggregationSettled(r) ==
  LET s == [session EXCEPT !.got = r, !.late = session.ceiling, !.ev = "settled"] IN
  /\ session.pc = "fetching"
  /\ Early
  /\ IF session.kind = "refresh"
       THEN IF r = "networkError"
              THEN /\ session' = [StopBoth(s) EXCEPT !.pc = "done"]
                   /\ RefreshFailed
              \* setTimeout(..., 1000)
              ELSE /\ session' = [s EXCEPT !.pc = "delay"]
                   /\ UNCHANGED <<dash, toast, intervalRefs>>
       ELSE IF r = "networkError"
              THEN /\ session' = [StopBoth(s) EXCEPT !.pc = "done"]
                   /\ intervalRefs' = NoRefs
                   /\ dash' = Show([dash EXCEPT !.crossDomainRecs = Null,
                                                !.crossDomainLoading = FALSE,
                                                !.crossDomainProgress = 0])
                   /\ toast' = toast
              \* clearInterval(progressInterval); setTimeout(..., 500)
              ELSE /\ session' = [s EXCEPT !.pc = "delay", !.progressInterval = FALSE]
                   /\ intervalRefs' = [intervalRefs EXCEPT !.progress = FALSE]
                   /\ dash' = Show([dash EXCEPT !.crossDomainProgress = 100])
                   /\ toast' = toast
  /\ UNCHANGED <<mounted, fetchRef>>
  /\ DashFrame

\* The setTimeout callback that follows a parsed response
delayElapsed ==
  LET recs == IF session.got = "errorBody"
                THEN (IF session.kind = "initial" THEN Null ELSE dash.crossDomainRecs)
                ELSE "recs"
  IN
  /\ session.pc = "delay"
  /\ Early
  /\ session' = [session EXCEPT !.pc = "done", !.fallbackInterval = FALSE,
                                !.ev = "timeout"]
  /\ IF session.kind = "refresh"
       THEN /\ toast' = IF session.got = "errorBody" THEN "Refresh Failed"
                        ELSE "Recommendations Refreshed!"
            /\ dash' = Show([dash EXCEPT !.crossDomainRecs = recs,
                                         !.crossDomainLoading = FALSE,
                                         !.crossDomainProgress = 0,
                                         !.crossDomainStatus = "",
                                         !.crossDomainCurrentArtist = "",
                                         !.crossDomainCurrentDomain = ""])
            /\ intervalRefs' = intervalRefs
       ELSE /\ toast' = toast
            /\ dash' = Show([dash EXCEPT !.crossDomainRecs = recs,
                                         !.crossDomainLoading = FALSE,
                                         !.crossDomainProgress = 0])
            /\ intervalRefs' = [intervalRefs EXCEPT !.fallback = FALSE]
  /\ UNCHANGED <<mounted, fetchRef>>
  /\ DashFrame

\* The component is torn down: the cleanup of the [spotifyToken] effect
unmount ==
  /\ mounted
  /\ Early
  /\ mounted' = FALSE
  /\ session' = [session EXCEPT
                   !.progressInterval = @ /\ ~intervalRefs.progress,
                   !.fallbackInterval = @ /\ ~intervalRefs.fallback,
                   !.ev = "unmount"]
  /\ intervalRefs' = NoRefs
  /\ UNCHANGED <<dash, toast, fetchRef>>
  /\ DashFrame

----------------------------------------------------------------------------
(* MusicDashboard: overlapping invocations of refreshCrossDomainRecs *)

RefreshFrame ==
  /\ UNCHANGED <<now, store, last>>
  /\ UNCHANGED hashVars
  /\ UNCHANGED fetchVars
  /\ UNCHANGED <<session, mounted, fetchRef>>

\* refreshCrossDomainRecs is invoked and runs to its first await; the
\* function invoked is that of the latest render
InvokeRefresh(i) ==
  /\ mounted /\ refreshes[i].pc = "idle"
  /\ \A j \in RefreshIds : j < i => refreshes[j].pc # "idle"
  /\ IF ~dash.spotifyToken
       THEN /\ toast' = "No Spotify Token"
            /\ refreshes' = [refreshes EXCEPT ![i].pc = "skipped"]
       ELSE /\ toast' = toast
            /\ refreshes' = [refreshes EXCEPT
                               ![i].pc = "checking",
                               ![i].crossDomainLoading = dash.crossDomainLoading]
  /\ UNCHANGED <<dash, intervalRefs>>
  /\ RefreshFrame

\* checkSpotifyTokenValidity has resolved for invocation i
RefreshTokenChecked(i, isValid) ==
  /\ refreshes[i].pc = "checking"
  /\ IF ~isValid
       THEN /\ toast' = "Invalid Spotify Token"
            /\ refreshes' = [refreshes EXCEPT ![i].pc = "skipped"]
            /\ dash' = dash
     \* if (crossDomainLoading) return: the value the closure captured
     ELSE IF refreshes[i].crossDomainLoading
       THEN /\ refreshes' = [refreshes EXCEPT ![i].pc = "skipped"]
            /\ UNCHANGED <<dash, toast>>
     ELSE /\ dash' = Show(Starting)
          /\ refreshes' = [refreshes EXCEPT ![i].pc = "clearing",
                                            ![i].progressInterval = TRUE,
                                            ![i].fallbackInterval = TRUE]
          /\ toast' = toast
  /\ intervalRefs' = intervalRefs
  /\ RefreshFrame

\* The catch block of invocation i
RefreshCaught(i) ==
  /\ refreshes' = [refreshes EXCEPT ![i].pc = "done",
                                    ![i].progressInterval = FALSE,
                                    ![i].fallbackInterval = FALSE]
  /\ RefreshFailed

\* The clear-cache request of invocation i has ended
RefreshCacheCleared(i, ok) ==
  /\ refreshes[i].pc = "clearing"
  /\ IF ok
       THEN /\ refreshes' = [refreshes EXCEPT ![i].pc = "fetching"]
            /\ UNCHANGED <<dash, toast, intervalRefs>>
       ELSE RefreshCaught(i)
  /\ RefreshFrame

\* The aggregation request of invocation i has ended
RefreshAggregationSettled(i, r) ==
  /\ refreshes[i].pc = "fetching"
  /\ IF r = "networkError"
       THEN RefreshCaught(i)
       ELSE /\ refreshes' = [refreshes EXCEPT ![i].pc = IF r = "recs" THEN "delay"
                                                         ELSE "delayError"]
            /\ UNCHANGED <<dash, toast, intervalRefs>>
  /\ RefreshFrame

\* The setTimeout callback of invocation i
RefreshDelayElapsed(i) ==
  /\ refreshes[i].pc \in {"delay", "delayError"}
  /\ refreshes' = [refreshes EXCEPT ![i].pc = "done", ![i].fallbackInterval = FALSE]
  /\ toast' = IF refreshes[i].pc = "delayError" THEN "Refresh Failed"
              ELSE "Recommendations Refreshed!"
  /\ dash' = Show([dash EXCEPT
                     !.crossDomainRecs = IF refreshes[i].pc = "delay" THEN "recs" ELSE @,
                     !.crossDomainLoading = FALSE,
                     !.crossDomainProgress = 0,
                     !.crossDomainStatus = "",
                     !.crossDomainCurrentArtist = "",
                     !.crossDomainCurrentDomain = ""])
  /\ intervalRefs' = intervalRefs
  /\ RefreshFrame

\* The real-poll timer of invocation i stops both timers: at the ceiling,
\* or on a poll answer r with a terminal status.  The other branches of the
\* timer callbacks write the progress display only.
RefreshPollStopped(i, r) ==
  /\ refreshes[i].progressInterval
  /\ refreshes' = [refreshes EXCEPT ![i].progressInterval = FALSE,
                                    ![i].fallbackInterval = FALSE]
  /\ intervalRefs' = NoRefs
  /\ IF r = NoPoll
       THEN dash' = Show([dash EXCEPT !.crossDomainLoading = FALSE,
                                      !.crossDomainProgress = 0,
                                      !.crossDomainStatus = ""])
       ELSE /\ Terminal(r.status)
            /\ dash' = Show([dash EXCEPT !.crossDomainProgress = r.percentage,
                                         !.crossDomainStatus = r.status,
                                         !.crossDomainCurrentArtist = r.current_artist,
                                         !.crossDomainCurrentDomain = r.current_domain])
  /\ toast' = toast
  /\ RefreshFrame

----------------------------------------------------------------------------
(* Specifications *)

CacheInit ==
  /\ now = 0
  /\ store = [k \in Keys |-> Absent]
  /\ last = NoCall

\* The components as constructed, before any effect has run
FetchUiInit ==
  /\ calls = [id \in CallIds |-> NoFetch]
  /\ timers = {}
  /\ progressInterval = 0
  /\ view = InitialView
  /\ requests = [aggregation |-> 0, clearCache |-> 0, answer |-> Null]

DashUiInit ==
  /\ refreshes = [i \in RefreshIds |-> NoRefresh]
  /\ session = NoSession
  /\ toast = ""
  /\ intervalRefs = NoRefs
  /\ mounted = TRUE

UiInit ==
  /\ FetchUiInit
  /\ DashUiInit
  /\ dash = InitialDash
  /\ fetchRef = FALSE

Init ==
  /\ CacheInit
  /\ userContext = "plain"
  /\ musicArtists = <<>> /\ topScoredArtists = <<>> /\ userTags = <<>>
  /\ hashLog = <<>>
  /\ managerHash = NoHash
  /\ UiInit

\* getItem and removeItem fail only when storage is disabled
AccessFaults == {"none", "disabled"}

Get ==
  \/ \E k \in RegisteredKeys, h \in HashIds, f \in AccessFaults : getCachedData(k, h, f)
  \/ \E h \in HashIds : getCachedData(UnregisteredKey, h, "none")
Set ==
  \/ \E k \in RegisteredKeys, h \in HashIds, d \in Data, f \in Faults : setCachedData(k, h, d, f)
  \/ \E h \in HashIds, d \in Data : setCachedData(UnregisteredKey, h, d, "none")
Clear == \E k \in RegisteredKeys, f \in AccessFaults : clearCache(k, f)
Tick == Advance(CacheInstants)

\* set, get and clear on the registered namespaces while time passes
Next == Get \/ Set \/ Clear \/ Tick

Spec == Init /\ [][Next]_vars

\* The cross-domain namespace in a localStorage that other writers share:
\* values that are no cache entry under the namespace key, and entries under
\* keys that have the namespace key as a prefix.
EnvGet == \E h \in HashIds : getCachedData(CrossKey, h, "none")
EnvSet == \E h \in HashIds, d \in Data : setCachedData(CrossKey, h, d, "none")
EnvClear == clearCache(CrossKey, "none")
EnvCorrupt == \E v \in CorruptValues : ExternalWrite(CrossKey, v)
EnvFill ==
  \E k \in ExtraKeys :
    /\ ~Present(store[k])
    /\ ExternalWrite(k, CacheEntry("d1", now, "h1", now + CrossDuration))
EnvTick == Advance(EnvInstants)

NextEnv == EnvGet \/ EnvSet \/ EnvClear \/ EnvCorrupt \/ EnvFill \/ EnvTick

SpecEnv == Init /\ [][NextEnv]_vars

\* The status display: getCacheStatus on namespaces that are written, left
\* to expire and overwritten by other writers
StatusSet == \E k \in RegisteredKeys, h \in HashIds : setCachedData(k, h, "d1", "none")
StatusGet ==
  \/ \E k \in RegisteredKeys, h \in HashIds, f \in AccessFaults : getCacheStatus(k, h, f)
  \/ \E h \in HashIds : getCacheStatus(UnregisteredKey, h, "none")
StatusCorrupt == \E v \in CorruptValues : ExternalWrite(CrossKey, v)
StatusTick == Advance(CacheInstants)

NextStatus == StatusSet \/ StatusGet \/ StatusCorrupt \/ StatusTick

SpecStatus == Init /\ [][NextStatus]_vars

\* Fingerprints of one logical request, computed at several instants from
\* several orderings of its lists
HashInstants == {0, TimeWindow - 1, TimeWindow}

HashInit ==
  /\ CacheInit
  /\ userContext \in Contexts
  /\ musicArtists \in Lists /\ topScoredArtists \in Lists /\ userTags \in Lists
  /\ Len(musicArtists) + Len(topScoredArtists) + Len(userTags) <= MaxItems
  /\ hashLog = <<>>
  /\ managerHash = NoHash
  /\ UiInit

HashCompute ==
  \E forceRefresh \in BOOLEAN, passed \in PassedArrays :
    generateRequestHash(forceRefresh, passed)
HashManager == \E passed \in PassedArrays : managerGenerateRequestHash(passed)
HashTick == Advance(HashInstants)

NextHash == HashCompute \/ HashManager \/ HashTick

SpecHash == HashInit /\ [][NextHash]_vars

\* The CrossDomainRecommendations component from its mount on: calls of
\* fetchCrossDomainRecommendations, forced or not, while time passes
FetchInstants == {0, 1, TimeWindow, CrossDuration + 1}

FetchInit ==
  /\ CacheInit
  /\ userContext \in Contexts
  /\ musicArtists = <<2, 1>> /\ topScoredArtists = <<1>> /\ userTags = <<>>
  /\ hashLog = <<>>
  /\ managerHash = NoHash
  /\ UiInit

FetchCall ==
  \E id \in CallIds, forceRefresh \in BOOLEAN :
    fetchCrossDomainRecommendations(id, forceRefresh)
FetchCleared == \E id \in CallIds : clearServerCache(id)
FetchResponse == \E id \in CallIds, r \in Responses : response(id, r)
FetchTick == Advance(FetchInstants)

NextFetch == FetchCall \/ FetchCleared \/ FetchResponse \/ FetchTick

SpecFetch == FetchInit /\ [][NextFetch]_vars

\* The MusicDashboard component with a Spotify token: either before the
\* initial load, or after an initial load that has ended and left nothing
\* behind, when the refresh button starts the session.
DashInit ==
  /\ CacheInit
  /\ userContext = "plain"
  /\ musicArtists = <<>> /\ topScoredArtists = <<>> /\ userTags = <<>>
  /\ hashLog = <<>>
  /\ managerHash = NoHash
  /\ FetchUiInit
  /\ DashUiInit
  /\ \/ /\ fetchRef = FALSE /\ dash = InitialDash
     \/ /\ fetchRef = TRUE
        /\ \E t \in BOOLEAN, recs \in {Null, "old"} :
             dash = [InitialDash EXCEPT !.spotifyToken = t, !.crossDomainRecs = recs]

DashRefresh == \E userId \in {Null, "u1"} : refreshCrossDomainRecs(userId)
DashChecked == \E isValid \in BOOLEAN : tokenChecked(isValid)
DashPoll == \E r \in PollFailures \cup ProgressData : pollAnswered(r)
DashCleared == \E ok \in BOOLEAN : cacheCleared(ok)
DashSettled == \E r \in Aggregations : aggregationSettled(r)

NextDash ==
  \/ initialLoad \/ DashRefresh \/ DashChecked
  \/ fallbackTick \/ progressTick \/ DashPoll
  \/ DashCleared \/ DashSettled \/ delayElapsed \/ unmount

SpecDash == DashInit /\ [][NextDash]_vars

\* The refresh button pressed again while an earlier refresh is under way
RefreshInit == DashInit /\ fetchRef
RefreshInvoke == \E i \in RefreshIds : InvokeRefresh(i)
RefreshChecked == \E i \in RefreshIds, isValid \in BOOLEAN : RefreshTokenChecked(i, isValid)
RefreshCleared == \E i \in RefreshIds, ok \in BOOLEAN : RefreshCacheCleared(i, ok)
RefreshSettled == \E i \in RefreshIds, r \in Aggregations : RefreshAggregationSettled(i, r)
RefreshDelay == \E i \in RefreshIds : RefreshDelayElapsed(i)
RefreshStopped ==
  \E i \in RefreshIds, r \in {NoPoll} \cup ProgressData : RefreshPollStopped(i, r)

NextRefresh ==
  \/ RefreshInvoke \/ RefreshChecked \/ RefreshCleared
  \/ RefreshSettled \/ RefreshDelay \/ RefreshStopped

SpecRefresh == RefreshInit /\ [][NextRefresh]_vars

----------------------------------------------------------------------------
(* Properties of the cache store *)

\* The step is a call of getCachedData on key k while storage works
GetStep(k) ==
  /\ last'.n # last.n /\ last'.op = "get" /\ last'.key = k /\ last'.fault = "none"

\* The step is a call of setCachedData on key k while storage works
SetStep(k) ==
  /\ last'.n # last.n /\ last'.op = "set" /\ last'.key = k /\ last'.fault = "none"

\* The durations the namespaces are documented to have
DocumentedDuration(k) == IF k = CrossKey THEN 1800000 ELSE 900000

TTLCorrectnessStep ==
  \A k \in RegisteredKeys :
    LET e == store[k] IN
      (GetStep(k) /\ IsEntry(e) /\ last'.hash = e.requestHash) =>
        /\ (now = e.timestamp + DocumentedDuration(k) - 1) =>
              (last'.ret = e.data /\ ~last'.raised /\ store'[k] = e)
        /\ (now = e.timestamp + DocumentedDuration(k) + 1) =>
              (last'.ret = Null /\ ~last'.raised /\ ~Present(store'[k]))

\* C1: for an entry written at time t under a namespace of duration d, a get
\* with the entry's request hash at t+d-1 returns the stored data, and a get
\* at t+d+1 returns null and leaves the namespace key out of storage.
TTLCorrectness == [][TTLCorrectnessStep]_vars

\* A get one millisecond before expiry has just returned the stored data
TTLCorrectnessWitness ==
  /\ last.op = "get" /\ last.key \in RegisteredKeys /\ last.fault = "none"
  /\ IsEntry(store[last.key])
  /\ now = store[last.key].timestamp + DocumentedDuration(last.key) - 1
  /\ last.ret = store[last.key].data

ValidIffStep ==
  \A k \in RegisteredKeys :
    LET e == store[k] IN
      (GetStep(k) /\ IsEntry(e)) =>
        /\ (last'.ret # Null) <=> (now < e.expiresAt /\ e.requestHash = last'.hash)
        /\ (now = e.expiresAt) => (last'.ret = Null /\ ~Present(store'[k]))

\* C2: getCachedData returns the stored data iff now < expiresAt and the
\* request hashes are equal; a get at now = expiresAt returns null and
\* deletes the entry.
ValidIff == [][ValidIffStep]_vars

SetThenGetStep ==
  \A k \in RegisteredKeys :
    (/\ last.op = "set" /\ last.key = k /\ last.fault = "none"
     /\ GetStep(k) /\ last'.hash = last.hash)
    => last'.ret = last.data

\* C3: setCachedData(ns, fp, data) immediately followed by
\* getCachedData(ns, fp) returns data, whatever storage held before: the
\* cleanup run by the set does not remove the entry just written.
SetThenGet == [][SetThenGetStep]_vars

MismatchStep ==
  \A k \in RegisteredKeys :
    LET e == store[k] IN
      (IsEntry(e) /\ now < e.expiresAt) =>
        /\ (GetStep(k) /\ last'.hash # e.requestHash) =>
              (last'.ret = Null /\ ~last'.raised /\ store' = store)
        /\ (store'[k] # e) =>
              (last'.n # last.n /\ last'.op \in {"set", "clear"} /\ last'.key = k)

\* C4: a get whose hash differs from that of the stored, unexpired entry
\* returns null, does not raise and leaves storage as it was; an unexpired
\* entry changes only by a set or a clear of its namespace.
MismatchIsMiss == [][MismatchStep]_vars

\* A mismatched get has just missed on an entry that is still stored
MismatchIsMissWitness ==
  /\ last.op = "get" /\ last.key \in RegisteredKeys /\ last.fault = "none"
  /\ IsEntry(store[last.key])
  /\ now < store[last.key].expiresAt
  /\ store[last.key].requestHash # last.hash
  /\ last.ret = Null

CorruptionRepairStep ==
  \A k \in RegisteredKeys :
    (GetStep(k) /\ Present(store[k]) /\ ~IsEntry(store[k])) =>
      (last'.ret = Null /\ ~last'.raised /\ ~Present(store'[k]))

\* C5: if the value stored under a registered key is not parseable as a
\* cache entry, getCachedData returns null, removes the key and does not
\* raise.
CorruptionRepair == [][CorruptionRepairStep]_vars

StorageFailureStep ==
  (/\ last'.n # last.n /\ last'.op \in {"get", "set"} /\ last'.fault # "none"
   /\ (last'.op = "get" => last'.fault = "disabled"))
  => (last'.ret = Null /\ ~last'.raised /\ store' = store)

\* C6: when the storage operations throw, getCachedData returns null,
\* setCachedData writes nothing and returns, and neither raises.
StorageFailureSilent == [][StorageFailureStep]_vars

MostRecentSetStep ==
  \A k \in RegisteredKeys :
    IF SetStep(k)
      THEN store'[k] \in
             {Absent,
              CacheEntry(last'.data, now, last'.hash, now + DocumentedDuration(k))}
      ELSE store'[k] \in {Absent, store[k]}

\* C7: the entry under a registered key, if any, is the one written by the
\* most recent set of that namespace: a set that writes leaves its own data,
\* hash and timestamp with expiresAt = timestamp + the documented duration (or
\* nothing), and every other step leaves the entry as it was or removes it.
MostRecentSet == [][MostRecentSetStep]_vars

\* A set has just replaced an entry of another request by its own
MostRecentSetWitness ==
  /\ last.op = "set" /\ last.key = MusicKey /\ last.fault = "none"
  /\ IsEntry(store[MusicKey])
  /\ store[MusicKey] = CacheEntry(last.data, now, last.hash, now + 900000)
  /\ now > 0

CleanupOldestFirstStep ==
  LET k == CrossKey
      config == cacheConfigs[k]
      written == [store EXCEPT
                    ![k] = CacheEntry(last'.data, now, last'.hash, now + config.duration)]
      before == {q \in Keys : Present(written[q]) /\ StartsWith(q, k)}
      after == {q \in Keys : Present(store'[q]) /\ StartsWith(q, k)}
  IN (SetStep(k) /\ Cardinality(before) > config.maxSize)
     => /\ after \subseteq before
        /\ Cardinality(after) = config.maxSize
        /\ \A r \in before \ after : \A q \in after :
              CacheInfoAge(written, r, now) >= CacheInfoAge(written, q, now)

\* C25: when a set leaves more than maxSize keys with the namespace's prefix,
\* cleanupCache removes the keys of largest recorded age until exactly
\* maxSize remain: no removed key is younger than a key that survives.
CleanupOldestFirst == [][CleanupOldestFirstStep]_vars

\* The step is a call of getCacheStatus on key k while storage works
StatusStep(k) ==
  /\ last'.n # last.n /\ last'.op = "status" /\ last'.key = k /\ last'.fault = "none"

StatusFaithfulStep ==
  \A k \in RegisteredKeys :
    LET e == store[k] IN
    StatusStep(k) =>
      /\ store' = store
      /\ (last'.ret = "valid") <=> (GetOutcome(e, last'.hash, now) = "hit")
      /\ (IsEntry(e) /\ now > e.expiresAt) => last'.ret = "expired"
      /\ (last'.ret = "missing") => ~IsEntry(e)

\* C29: getCacheStatus leaves storage as it was and returns valid iff
\* getCachedData would return the data, expired when the stored entry's
\* expiresAt has passed, and missing only when no entry is stored under the key.
StatusFaithful == [][StatusFaithfulStep]_vars

----------------------------------------------------------------------------
(* Properties of the request fingerprint *)

Window(t) == t \div 300000
IsFingerprint(fp) == "base64" \in DOMAIN fp

\* C8: the fingerprint does not depend on the order of the lists: every
\* non-forced fingerprint computed equals the fingerprint of every ordering of
\* musicArtists, topScoredArtists and userTags at the same clock reading, and
\* CacheManager.generateRequestHash gives one result for all orderings.
OrderIndependence ==
  \A a \in Orderings(musicArtists), b \in Orderings(topScoredArtists),
     c \in Orderings(userTags) :
    /\ \A i \in 1..Len(hashLog) :
         ~hashLog[i].force =>
           hashLog[i].fp = RequestHash(userContext, a, b, c, FALSE,
                                       Location, LocationRadius, hashLog[i].at)
    /\ ManagerRequestHash(userContext, a, b, c, Location, LocationRadius)
         = ManagerRequestHash(userContext, musicArtists, topScoredArtists, userTags,
                              Location, LocationRadius)
    /\ managerHash \in
         {NoHash, ManagerRequestHash(userContext, a, b, c, Location, LocationRadius)}

\* Two non-forced fingerprints of one window, one computed from lists that
\* were out of order and one from lists in order, are the same string
OrderIndependenceWitness ==
  \E i, j \in 1..Len(hashLog) :
    /\ ~hashLog[i].force /\ ~hashLog[j].force
    /\ hashLog[i].inOrder /\ ~hashLog[j].inOrder
    /\ Window(hashLog[i].at) = Window(hashLog[j].at)
    /\ IsFingerprint(hashLog[i].fp)
    /\ hashLog[i].fp = hashLog[j].fp

\* C9: two non-forced fingerprints of the request computed at t1 and t2
\* with floor(t1/300000) = floor(t2/300000) are equal.
SameWindowSameFingerprint ==
  \A i, j \in 1..Len(hashLog) :
    (/\ ~hashLog[i].force /\ ~hashLog[j].force
     /\ Window(hashLog[i].at) = Window(hashLog[j].at))
    => hashLog[i].fp = hashLog[j].fp

\* Two non-forced fingerprints computed at different instants of one window
SameWindowWitness ==
  \E i, j \in 1..Len(hashLog) :
    /\ ~hashLog[i].force /\ ~hashLog[j].force
    /\ hashLog[i].at < hashLog[j].at
    /\ Window(hashLog[i].at) = Window(hashLog[j].at)
    /\ IsFingerprint(hashLog[i].fp)
    /\ hashLog[i].fp = hashLog[j].fp

\* C10 as stated: a forced fingerprint differs from every fingerprint
\* computed earlier for the request, forced or not.
ForcedAlwaysDistinct ==
  \A i, j \in 1..Len(hashLog) :
    (i < j /\ hashLog[j].force /\ IsFingerprint(hashLog[j].fp))
    => hashLog[i].fp # hashLog[j].fp

\* C10 as amended: a forced fingerprint differs from every fingerprint
\* computed for the request at an earlier clock reading, forced or not.
ForcedDistinctFromEarlier ==
  \A i, j \in 1..Len(hashLog) :
    (/\ hashLog[i].at < hashLog[j].at
     /\ hashLog[j].force /\ IsFingerprint(hashLog[j].fp))
    => hashLog[i].fp # hashLog[j].fp

\* A forced fingerprint computed after a non-forced one of the same window
ForcedDistinctWitness ==
  \E i, j \in 1..Len(hashLog) :
    /\ hashLog[i].at < hashLog[j].at
    /\ Window(hashLog[i].at) = Window(hashLog[j].at)
    /\ ~hashLog[i].force /\ hashLog[j].force
    /\ IsFingerprint(hashLog[i].fp) /\ IsFingerprint(hashLog[j].fp)
    /\ hashLog[i].fp # hashLog[j].fp

----------------------------------------------------------------------------
(* Properties of fetchCrossDomainRecommendations *)

\* The step is the start of call id
CallStarts(id) == calls[id].pc = "idle" /\ calls'[id].pc # "idle"

\* The step is the end of the aggregation request of call id
CallResponds(id) == calls[id].pc = "awaitResponse" /\ calls'[id].pc = "resolved"

CacheHitIsLocalStep ==
  \A id \in CallIds :
    (/\ CallStarts(id) /\ ~calls'[id].force
     /\ GetOutcome(store[CACHE_KEY], calls'[id].hash, now) = "hit")
    => /\ view'.recommendations = store[CACHE_KEY].data
       /\ view'.from_cache
       /\ requests' = requests
       /\ timers' = timers

\* C11: a call without forceRefresh that finds an unexpired entry stored under
\* the request's fingerprint installs that entry's data marked from_cache,
\* sends no aggregation or clear-cache request and starts no progress timer.
CacheHitIsLocal == [][CacheHitIsLocalStep]_vars

FailureLeavesCacheStep ==
  \A id \in CallIds :
    (CallResponds(id) /\ requests'.answer # "result")
    => (view'.error /\ store' = store)

\* C12: when the aggregation request fails (network error, status outside
\* 2xx, unparseable body, or a body that is no usable result object) the call
\* surfaces the error state and leaves localStorage as it was.
FailureLeavesCache == [][FailureLeavesCacheStep]_vars

\* C13: once a call has settled, the progress timer it started is no longer
\* live.
TimerCancelledWhenSettled ==
  \A id \in CallIds : Settled(calls[id]) => id \notin timers

\* C22: no call of fetchCrossDomainRecommendations ends in a rejected
\* promise, and a call that has ended leaves loading false and cacheStatus
\* cached, fresh or error, with the error set when cacheStatus is error.
NeverRejects ==
  /\ \A id \in CallIds : calls[id].pc # "rejected"
  /\ (\A id \in CallIds : calls[id].pc \in {"idle", "resolved"})
     => (calls[1].pc = "idle" \/
         /\ ~view.loading
         /\ view.cacheStatus \in {"cached", "fresh", "error"}
         /\ view.cacheStatus = "error" => view.error)

ForcedRefreshClearsStep ==
  \A id \in CallIds :
    /\ (CallStarts(id) /\ calls'[id].force)
       => /\ ~Present(store'[CACHE_KEY])
          /\ requests'.clearCache = requests.clearCache + 1
          /\ requests'.aggregation = requests.aggregation
          /\ calls'[id].pc = "awaitClear"
    /\ (calls[id].pc = "awaitClear" /\ calls'[id].pc # "awaitClear")
       => /\ requests'.aggregation = requests.aggregation + 1
          /\ calls'[id].pc = "awaitResponse"

\* C23: a call with forceRefresh removes the local entry and sends the
\* clear-cache request before the aggregation request, which is sent once
\* the clear-cache request has ended, whether it failed or not.
ForcedRefreshClears == [][ForcedRefreshClearsStep]_vars

\* The timestamp field of a fingerprint
Stamp(fp) == fp.base64[14]

\* The fingerprint of the component's request when stamped with t
FingerprintAt(forceRefresh, t) ==
  RequestHash(userContext, musicArtists, topScoredArtists, userTags,
              forceRefresh, Location, LocationRadius, t)

ServedUntilExpiryStep ==
  \A id \in CallIds :
    LET e == store[CACHE_KEY] IN
    (/\ CallStarts(id) /\ ~calls'[id].force
     /\ IsEntry(e) /\ e.data = "result"
     /\ e.requestHash = FingerprintAt(FALSE, Stamp(e.requestHash))
     /\ now < e.expiresAt)
    => /\ requests'.aggregation = requests.aggregation
       /\ view'.recommendations = e.data /\ view'.cacheStatus = "cached"

\* C24: once a non-forced request has been fetched and cached, a later
\* identical non-forced request is served from the cache, without an
\* aggregation request, as long as the entry has not expired.
ServedUntilExpiry == [][ServedUntilExpiryStep]_vars

NoSideEffectsStep ==
  /\ musicArtists' = musicArtists
  /\ topScoredArtists' = topScoredArtists
  /\ userTags' = userTags

\* C26: computing the fingerprint leaves the caller's musicArtists,
\* topScoredArtists and userTags as they were, element order included.
NoSideEffects == [][NoSideEffectsStep]_vars

ForcedResultServedStep ==
  \A id \in CallIds :
    LET e == store[CACHE_KEY] IN
    (/\ CallStarts(id) /\ ~calls'[id].force
     /\ IsEntry(e) /\ e.data = "result"
     /\ \E j \in CallIds : /\ calls[j].force /\ calls[j].pc = "resolved"
                            /\ calls[j].hash = e.requestHash
     /\ Window(Stamp(e.requestHash)) = Window(now))
    => /\ requests'.aggregation = requests.aggregation
       /\ view'.recommendations = e.data /\ view'.cacheStatus = "cached"

\* C30: the result stored by a forced refresh is what a later identical
\* non-forced request of the same 5-minute window gets from the cache,
\* without a new aggregation request.
ForcedResultServed == [][ForcedResultServedStep]_vars

----------------------------------------------------------------------------
(* Properties of overlapping refreshes *)

\* C28: at most one invocation of refreshCrossDomainRecs has its
\* aggregation request pending, and at most one has a timer live.
AtMostOneRefresh ==
  /\ Cardinality({i \in RefreshIds : refreshes[i].pc = "fetching"}) <= 1
  /\ Cardinality({i \in RefreshIds :
                    refreshes[i].progressInterval \/ refreshes[i].fallbackInterval}) <= 1

----------------------------------------------------------------------------
(* Properties of the MusicDashboard poll session *)

Live == session.progressInterval \/ session.fallbackInterval

\* C14: once the aggregation request of a session has settled and its
\* completion callback has run, neither the real-poll timer nor the fallback
\* timer of the session is live, whatever the polls have returned and
\* however many there have been.
TimersCancelledAfterSettle == session.pc = "done" => ~Live

\* C15: after the component has been torn down no timer of a poll session
\* is live, whenever in the session the teardown happens.
TeardownReleasesTimers == ~mounted => ~Live

\* C16: when every real poll fails, both timers are stopped at tick 300 and
\* the terminal "abandoned" signal is surfaced.
CeilingAtMaxPolls ==
  (session.pollCount >= 300 /\ ~session.answered)
  => (~Live /\ (mounted => dash.crossDomainStatus = "abandoned"))

CeilingMeansFailedStep ==
  (session.late /\ session.pc = "delay" /\ session'.pc = "done")
  => /\ dash'.crossDomainRecs = dash.crossDomainRecs
     /\ toast' # "Recommendations Refreshed!"

\* C17: a response that arrives after the poll ceiling has been reached is
\* not applied as a success: its data is not installed as the current
\* recommendations and no success notification is shown.
CeilingMeansFailed == [][CeilingMeansFailedStep]_vars

\* The step is the answer to a poll
PollEnds == session.polling /\ ~session'.polling

TerminalPollStopsStep ==
  /\ (/\ PollEnds /\ session'.lastPoll \in ProgressData
      /\ session'.lastPoll.status \in {"completed", "error"})
     => /\ mounted =>
             /\ dash'.crossDomainProgress = session'.lastPoll.percentage
             /\ dash'.crossDomainStatus = session'.lastPoll.status
             /\ dash'.crossDomainCurrentArtist = session'.lastPoll.current_artist
             /\ dash'.crossDomainCurrentDomain = session'.lastPoll.current_domain
        /\ ~session'.progressInterval /\ ~session'.fallbackInterval
  /\ (/\ session.lastPoll \in ProgressData
      /\ session.lastPoll.status \in {"completed", "error"})
     => /\ ~session'.polling
        /\ session'.pollCount = session.pollCount
        /\ ~session'.progressInterval /\ ~session'.fallbackInterval

\* C18: a poll that returns status completed or error forwards its
\* percentage, status, current artist and current domain and cancels both
\* timers; from then on no timer of the session is live and no poll request
\* is sent.
TerminalPollStops == [][TerminalPollStopsStep]_vars

\* A poll has just reported completion to a mounted component
TerminalPollWitness ==
  /\ mounted /\ session.ev = "poll" /\ session.pc \in {"clearing", "fetching"}
  /\ session.lastPoll \in ProgressData /\ session.lastPoll.status = "error"
  /\ dash.crossDomainStatus = "error" /\ dash.crossDomainProgress = 40
  /\ ~Live

\* The step is a real poll that fails: the request fails, the status is
\* outside 2xx, or there is no user id to poll for
PollFails ==
  \/ PollEnds /\ session'.lastPoll \in PollFailures
  \/ /\ session'.pollCount = session.pollCount + 1
     /\ ~session'.ceiling /\ session'.lastPoll = NoUserId

PollFailureStep ==
  (PollFails /\ mounted)
  => /\ session'.progressInterval = session.progressInterval
     /\ session'.fallbackInterval = session.fallbackInterval
     /\ dash'.crossDomainStatus = "processing"
     /\ dash'.crossDomainProgress \in
          {session'.immediateFallbackProgress, session'.fallbackProgress}

\* C19: every failed real poll leaves both timers as they are and surfaces,
\* for that tick, a fallback value with the stage "processing".
PollFailureFallsBack == [][PollFailureStep]_vars

FallbackTickStep ==
  (/\ session'.ev = "fallbackTick" /\ session' # session
   /\ mounted /\ session.lastPoll \in ProgressData)
  => dash'.crossDomainProgress = session.lastPoll.percentage

\* C20: while the latest real poll has succeeded, a tick of the fallback
\* timer leaves the displayed progress at that poll's percentage.
RealProgressKept == [][FallbackTickStep]_vars

\* The step surfaces a simulated progress value: a tick of the fallback
\* timer, or a real poll whose request failed
SimulatedTick ==
  \/ session'.ev = "fallbackTick" /\ session' # session
  \/ PollEnds /\ session'.lastPoll \in PollFailures

SimulatedProgressStep ==
  (/\ SimulatedTick /\ mounted
   /\ ~session'.answered /\ session.pc \in {"clearing", "fetching"})
  => /\ dash'.crossDomainProgress >= dash.crossDomainProgress
     /\ dash'.crossDomainProgress <= 85

\* C27: in a session whose real polls all fail, while the aggregation is
\* pending, each tick displays a simulated progress that is at least the
\* one displayed before and at most 85.
SimulatedProgressMonotone == [][SimulatedProgressStep]_vars

\* The stop paths of a poll session that have run
StoppedByPoll == session.lastPoll \in ProgressData /\ Terminal(session.lastPoll.status)
StoppedByCeiling == session.ceiling
StoppedByAggregation == session.pc = "done"
StoppedByTeardown ==
  /\ ~mounted /\ session.ev = "unmount"
  /\ session.pc \in {"clearing", "fetching", "delay", "done"}

StopPathsRun ==
  Cardinality({p \in {"poll", "ceiling", "aggregation", "teardown"} :
                 \/ p = "poll" /\ StoppedByPoll
                 \/ p = "ceiling" /\ StoppedByCeiling
                 \/ p = "aggregation" /\ StoppedByAggregation
                 \/ p = "teardown" /\ StoppedByTeardown})

\* C21: once several stop paths of a session have run (terminal poll
\* status, poll ceiling, end of the aggregation request, teardown), in
\* whatever order, the session has no live timer.
IdempotentStop == StopPathsRun >= 2 => ~Live

====
